---- MODULE Spec2Model ----
(***************************************************************************)
(* State-machine model of kc-elections-api.                                *)
(*                                                                         *)
(*   src/src/database.rs  DbClient: one tokio_postgres Client behind a     *)
(*                        tokio Mutex, the four tables, log_update and the *)
(*                        three reads.                                     *)
(*   src/src/main.rs      get_all_data: the Redis read-through cache in    *)
(*                        front of fetch_and_parse_csv.                    *)
(*                                                                         *)
(* A table is the sequence of its rows in heap (insertion) order.  The     *)
(* rows a statement sees are the committed rows followed by the rows the   *)
(* connection's open transaction has inserted so far: every caller shares  *)
(* the one connection.  Every awaited statement is one step and may fail.  *)
(***************************************************************************)
EXTENDS Integers, Sequences, FiniteSets, TLC

VARIABLES
    updates,        \* committed rows of table updates
    districts,      \* committed rows of table districts
    contests,       \* committed rows of table contests
    candidates,     \* committed rows of table candidates
    tx,             \* the connection's open transaction and its pending rows
    update_seq,     \* SERIAL sequence of updates.id
    district_seq,   \* SERIAL sequence of districts.id
    candidate_seq,  \* SERIAL sequence of candidates.id
    now,            \* the database server's clock at its last reading by NOW()
    client,         \* DbClient.client: Mutex<Client>, FIFO queue, head = holder
    fault,          \* the statement the lock's holder ran last failed in the storage layer
    call,           \* call[p]: the frame of the DbClient method p is running
    cache,          \* Redis: the value under CACHE_KEY and its remaining TTL
    redis,          \* AppState.redis: Mutex<MultiplexedConnection>, FIFO queue
    upstream,       \* the rows CSV_URL serves at present
    req,            \* req[p]: the frame of the get_all_data call of request p
    sched,          \* the Refresh Scheduler's ingestion cycle
    de,             \* a field under QuotedFloat::deserialize and its results
    http,           \* a request to a handler of main.rs and its response
    origin          \* of the rows last fetched, while cached or on their way to
                    \* the cache: the body they were read from and the seconds
                    \* since (kept for the properties)

db_vars == <<updates, districts, contests, candidates, tx,
             update_seq, district_seq, candidate_seq, now, client, fault, call>>
cache_vars == <<cache, redis, upstream, req, origin>>
vars == <<db_vars, cache_vars, sched, de, http>>

-----------------------------------------------------------------------------
(* Bounds of the model *)

NumProcs == 2
MaxWrites == 2
MaxTime == 1
MaxContests == 2
MaxLatency == 2
MaxFieldLen == 4
MaxRecords == 3

Procs == 1..NumProcs
\* The scheduler task is the one caller of log_update; the others read.
Writers == {1}
Readers == Procs \ Writers
Times == 0..MaxTime

-----------------------------------------------------------------------------
(* Values of the domain types used by database.rs (crate::{Candidate,      *)
(* Contest, District, PartyPreference}), as database.rs reads their fields *)

PartyPreference ==
    {"PartyPreference::Democrat", "PartyPreference::Republican",
     "PartyPreference::NotAffiliated"}

DistrictValues ==
    << [name |-> "Seattle", percent_turnout |-> 40, registered_voters |-> 9,
        ballots_counted |-> 4, district_type |-> "City",
        district_type_subheading |-> "sub"],
       [name |-> "Kent", percent_turnout |-> 50, registered_voters |-> 6,
        ballots_counted |-> 3, district_type |-> "City",
        district_type_subheading |-> "sub"] >>

CandidateValues ==
    << [name |-> "Alice", percentage |-> 60, votes |-> 1,
        party_preference |-> "PartyPreference::Democrat"],
       [name |-> "Bob", percentage |-> 40, votes |-> 2,
        party_preference |-> "PartyPreference::Republican"] >>

\* Contest 100 as two cycles may report it (the second with another district
\* row and another count), and contest 200 with two candidates.
ContestValues ==
    { [id |-> 100, ballot_title |-> "Mayor", district |-> DistrictValues[1],
       candidates |-> <<CandidateValues[1]>>],
      [id |-> 100, ballot_title |-> "Mayor", district |-> DistrictValues[2],
       candidates |-> <<CandidateValues[2]>>],
      [id |-> 200, ballot_title |-> "Judge", district |-> DistrictValues[1],
       candidates |-> <<CandidateValues[2], CandidateValues[1]>>] }

ContestLists == UNION { [1..n -> ContestValues] : n \in 0..MaxContests }

RECURSIVE SumVotes(_)
SumVotes(cs) == IF cs = <<>> THEN 0 ELSE Head(cs).votes + SumVotes(Tail(cs))

RECURSIVE TotalVotes(_)
TotalVotes(cl) ==
    IF cl = <<>> THEN 0 ELSE SumVotes(Head(cl).candidates) + TotalVotes(Tail(cl))

-----------------------------------------------------------------------------
(* Conversions *)

\* `contest.id as i32` and `contest_id as u32`
\* (2^32 is written as 2147483647 + 2147483647 + 2)
AsI32(x) == IF x > 2147483647 THEN ((x - 2147483647) - 2147483647) - 2 ELSE x
AsU32(x) == IF x < 0 THEN ((x + 2147483647) + 2147483647) + 2 ELSE x

\* format!("{:?}", candidate.party_preference)
PartyPreferenceDebug(pp) ==
    CASE pp = "PartyPreference::Democrat" -> "Democrat"
      [] pp = "PartyPreference::Republican" -> "Republican"
      [] pp = "PartyPreference::NotAffiliated" -> "NotAffiliated"

\* PartyPreference::from_str(..).unwrap_or(NotAffiliated): case-insensitive
\* substring match, anything else NotAffiliated
PartyPreferenceFromStr(s) ==
    CASE s \in {"Democrat", "Prefers Democratic Party"} -> "PartyPreference::Democrat"
      [] s \in {"Republican", "Prefers Republican Party"} -> "PartyPreference::Republican"
      [] OTHER -> "PartyPreference::NotAffiliated"

-----------------------------------------------------------------------------
(* The connection *)

NoTx == [open |-> FALSE, timestamp |-> 0, updates |-> <<>>, districts |-> <<>>,
         contests |-> <<>>, candidates |-> <<>>]

\* What a statement run on the connection sees of each table.
ViewUpdates == updates \o tx.updates
ViewDistricts == districts \o tx.districts
ViewContests == contests \o tx.contests
ViewCandidates == candidates \o tx.candidates

\* The four committed tables.
Committed == <<updates, districts, contests, candidates>>

\* A frame call[p]: pc, the next statement; op, the method; arg, its
\* arguments; the method's locals; res, its return value once pc = "ret".
Idle == [pc |-> "idle"]
\* Every method starts with self.client.lock().await.  (Which method, and
\* its arguments, are drawn when its body first runs: nothing reads them before.)
Locking == [pc |-> "lock"]

\* self.client.lock().await: the caller joins the queue ...
Lock(p) == Append(client, p)
\* (no exclusion: a caller uses the connection without owning the guard)
HoldsUnguarded(p) == TRUE

\* ... and owns the guard once it is at its head
Holds(p) == client # <<>> /\ Head(client) = p

\* dropping the guard
Unlock == Tail(client)

Ok(v) == [ok |-> TRUE, val |-> v]
Err(e) == [ok |-> FALSE, val |-> e]

\* The method's return value is built; its guard is still in scope.
Ret(op, arg, r) == [pc |-> "ret", op |-> op, arg |-> arg, res |-> r]

\* p's call of method op has built its return value and still owns the lock.
Returned(p, op) == call[p].pc = "ret" /\ call[p].op = op

\* A task calls a method of the shared DbClient and waits for the lock.
lock(p) ==
    /\ call[p].pc = "idle"
    /\ client' = Lock(p)
    /\ call' = [call EXCEPT ![p] = Locking]
    /\ UNCHANGED <<cache_vars, sched, de, http, updates, districts, contests, candidates, tx,
                   update_seq, district_seq, candidate_seq, now, fault>>

-----------------------------------------------------------------------------
(* DbClient::log_update *)

\* (an early return that leaves the transaction's rows on the connection)
FailedWithoutRollback(p, e) ==
    /\ fault' = (e = "db")
    /\ tx' = [tx EXCEPT !.open = FALSE]
    /\ call' = [call EXCEPT ![p] =
                  [Ret("log_update", <<>>, Err(e)) EXCEPT !.arg =
                     [before |-> call[p].arg.before,
                      rolled_back |-> Len(tx.updates) + Len(tx.districts)
                                      + Len(tx.contests) + Len(tx.candidates)]]]

\* An early return through `?`: the Transaction is dropped, which rolls it
\* back, and the method returns the error with the guard still in scope.
\* (before: the committed tables at the call, kept for the properties;
\* rolled_back: the pending rows the rollback discards.)
Failed(p, e) ==
    /\ fault' = (e = "db")
    /\ tx' = NoTx
    /\ call' = [call EXCEPT ![p] =
                  [Ret("log_update", <<>>, Err(e)) EXCEPT !.arg =
                     [before |-> call[p].arg.before,
                      rolled_back |-> Len(tx.updates) + Len(tx.districts)
                                      + Len(tx.contests) + Len(tx.candidates)]]]

\* log_update(contests = cl, total_votes = tv) takes the lock, then
\* client.transaction().await?
\* NOW() is the transaction's start time t: the clock never runs backwards,
\* and may not have advanced since the transaction before.
log_update(p, cl, tv, t) ==
    /\ call[p].pc = "lock"
    /\ Holds(p)
    /\ update_seq < MaxWrites
    /\ t >= now
    /\ now' = t
    /\ \/ /\ fault' = FALSE
          /\ tx' = [NoTx EXCEPT !.open = TRUE, !.timestamp = t]
          /\ call' = [call EXCEPT ![p] =
                         [pc |-> "insert_update", op |-> "log_update",
                          arg |-> [contests |-> cl, total_votes |-> tv,
                                   before |-> Committed],
                          update_id |-> 0, district_id |-> 0, i |-> 1, j |-> 1]]
       \/ /\ fault' = TRUE
          /\ tx' = NoTx
          /\ call' = [call EXCEPT ![p] =
                         Ret("log_update", [before |-> Committed, rolled_back |-> 0],
                             Err("db"))]
    /\ UNCHANGED <<cache_vars, sched, de, http, updates, districts, contests, candidates,
                   update_seq, district_seq, candidate_seq, client>>

\* Where the loops of log_update go after contest i's candidate j - 1.
NextInsert(f) ==
    IF f.j <= Len(f.arg.contests[f.i].candidates) THEN [f EXCEPT !.pc = "insert_candidate"]
    ELSE IF f.i < Len(f.arg.contests)
    THEN [f EXCEPT !.pc = "insert_district", !.i = f.i + 1, !.j = 1]
    ELSE [f EXCEPT !.pc = "commit"]

\* INSERT INTO updates (timestamp, total_votes) VALUES (NOW(), $1) RETURNING id
InsertUpdate(p) ==
    /\ call[p].pc = "insert_update"
    /\ Holds(p)
    /\ \/ /\ fault' = FALSE
          /\ update_seq' = update_seq + 1
          /\ tx' = [tx EXCEPT !.updates = Append(@,
                       [id |-> update_seq + 1, timestamp |-> tx.timestamp,
                        total_votes |-> call[p].arg.total_votes])]
          /\ call' = [call EXCEPT ![p] =
                         [call[p] EXCEPT !.update_id = update_seq + 1,
                            !.pc = IF call[p].arg.contests = <<>> THEN "commit"
                                   ELSE "insert_district"]]
       \/ Failed(p, "db") /\ UNCHANGED update_seq
    /\ UNCHANGED <<cache_vars, sched, de, http, updates, districts, contests, candidates,
                   district_seq, candidate_seq, now, client>>

\* The district row of d, whatever its id and update.
DistrictRow(d, id, uid) ==
    [id |-> id, name |-> d.name, percent_turnout |-> d.percent_turnout,
     registered_voters |-> d.registered_voters,
     ballots_counted |-> d.ballots_counted, district_type |-> d.district_type,
     district_type_subheading |-> d.district_type_subheading, update_id |-> uid]

\* (districts deduplicated: a row with the same data is used again)
InsertDistrictDeduplicated(p) ==
    /\ call[p].pc = "insert_district"
    /\ Holds(p)
    /\ \/ LET d == call[p].arg.contests[call[p].i].district
              same == {k \in 1..Len(ViewDistricts) :
                          ViewDistricts[k] = DistrictRow(d, ViewDistricts[k].id,
                                                         ViewDistricts[k].update_id)}
          IN
          /\ fault' = FALSE
          /\ IF same = {}
             THEN /\ district_seq' = district_seq + 1
                  /\ tx' = [tx EXCEPT !.districts = Append(@,
                               DistrictRow(d, district_seq + 1, call[p].update_id))]
                  /\ call' = [call EXCEPT ![p].district_id = district_seq + 1,
                                          ![p].pc = "insert_contest"]
             ELSE /\ UNCHANGED <<district_seq, tx>>
                  /\ call' = [call EXCEPT
                        ![p].district_id = ViewDistricts[CHOOSE k \in same : TRUE].id,
                        ![p].pc = "insert_contest"]
       \/ Failed(p, "db") /\ UNCHANGED district_seq
    /\ UNCHANGED <<cache_vars, sched, de, http, updates, districts, contests, candidates,
                   update_seq, candidate_seq, now, client>>

\* INSERT INTO districts (...) VALUES (...) RETURNING id
InsertDistrict(p) ==
    /\ call[p].pc = "insert_district"
    /\ Holds(p)
    /\ \/ LET d == call[p].arg.contests[call[p].i].district IN
          /\ fault' = FALSE
          /\ district_seq' = district_seq + 1
          /\ tx' = [tx EXCEPT !.districts = Append(@,
                       [id |-> district_seq + 1, name |-> d.name,
                        percent_turnout |-> d.percent_turnout,
                        registered_voters |-> d.registered_voters,
                        ballots_counted |-> d.ballots_counted,
                        district_type |-> d.district_type,
                        district_type_subheading |-> d.district_type_subheading,
                        update_id |-> call[p].update_id])]
          /\ call' = [call EXCEPT ![p].district_id = district_seq + 1,
                                  ![p].pc = "insert_contest"]
       \/ Failed(p, "db") /\ UNCHANGED district_seq
    /\ UNCHANGED <<cache_vars, sched, de, http, updates, districts, contests, candidates,
                   update_seq, candidate_seq, now, client>>

\* contests.id INTEGER PRIMARY KEY: no second row with this id, in any update
ContestKeyFree(id) == \A k \in 1..Len(ViewContests) : ViewContests[k].id # id

\* INSERT INTO contests (id, ballot_title, district_id, update_id) VALUES (...)
InsertContest(p) ==
    /\ call[p].pc = "insert_contest"
    /\ Holds(p)
    /\ LET c == call[p].arg.contests[call[p].i] IN
       \/ /\ ContestKeyFree(AsI32(c.id))
          /\ fault' = FALSE
          /\ tx' = [tx EXCEPT !.contests = Append(@,
                       [id |-> AsI32(c.id), ballot_title |-> c.ballot_title,
                        district_id |-> call[p].district_id,
                        update_id |-> call[p].update_id])]
          /\ call' = [call EXCEPT ![p] = NextInsert([call[p] EXCEPT !.j = 1])]
       \/ /\ ~ContestKeyFree(AsI32(c.id))
          /\ Failed(p, "unique_violation")
       \/ Failed(p, "db")
    /\ UNCHANGED <<cache_vars, sched, de, http, updates, districts, contests, candidates,
                   update_seq, district_seq, candidate_seq, now, client>>

\* INSERT INTO candidates (name, percentage, votes, party_preference,
\*                         contest_id, update_id) VALUES (...)
InsertCandidate(p) ==
    /\ call[p].pc = "insert_candidate"
    /\ Holds(p)
    /\ \/ LET c == call[p].arg.contests[call[p].i]
              cand == c.candidates[call[p].j] IN
          /\ fault' = FALSE
          /\ candidate_seq' = candidate_seq + 1
          /\ tx' = [tx EXCEPT !.candidates = Append(@,
                       [id |-> candidate_seq + 1, name |-> cand.name,
                        percentage |-> cand.percentage, votes |-> cand.votes,
                        party_preference |-> PartyPreferenceDebug(cand.party_preference),
                        contest_id |-> AsI32(c.id),
                        update_id |-> call[p].update_id])]
          /\ call' = [call EXCEPT ![p] = NextInsert([call[p] EXCEPT !.j = @ + 1])]
       \/ Failed(p, "db") /\ UNCHANGED candidate_seq
    /\ UNCHANGED <<cache_vars, sched, de, http, updates, districts, contests, candidates,
                   update_seq, district_seq, now, client>>

\* (a commit of a transaction that had deleted the rows of the snapshots
\* before: the three tables keep the current results only)
CommitCurrentOnly(p) ==
    /\ call[p].pc = "commit"
    /\ Holds(p)
    /\ \/ /\ fault' = FALSE
          /\ updates' = updates \o tx.updates
          /\ districts' = tx.districts
          /\ contests' = tx.contests
          /\ candidates' = tx.candidates
          /\ tx' = NoTx
          /\ call' = [call EXCEPT ![p] =
                         Ret("log_update", [before |-> call[p].arg.before,
                                             contests |-> call[p].arg.contests],
                             Ok("unit"))]
       \/ Failed(p, "db") /\ UNCHANGED <<updates, districts, contests, candidates>>
    /\ UNCHANGED <<cache_vars, sched, de, http, update_seq, district_seq, candidate_seq, now, client>>

\* transaction.commit().await?; Ok(())
Commit(p) ==
    /\ call[p].pc = "commit"
    /\ Holds(p)
    /\ \/ /\ fault' = FALSE
          /\ updates' = updates \o tx.updates
          /\ districts' = districts \o tx.districts
          /\ contests' = contests \o tx.contests
          /\ candidates' = candidates \o tx.candidates
          /\ tx' = NoTx
          /\ call' = [call EXCEPT ![p] =
                         Ret("log_update", [before |-> call[p].arg.before,
                                             contests |-> call[p].arg.contests],
                             Ok("unit"))]
       \/ Failed(p, "db") /\ UNCHANGED <<updates, districts, contests, candidates>>
    /\ UNCHANGED <<cache_vars, sched, de, http, update_seq, district_seq, candidate_seq, now, client>>

\* (the guard of a method that returns Err is never dropped)
ReturnLeakingOnErr(p) ==
    /\ call[p].pc = "ret"
    /\ Holds(p)
    /\ client' = IF call[p].res.ok THEN Unlock ELSE client
    /\ fault' = FALSE
    /\ call' = [call EXCEPT ![p] = Idle]
    /\ UNCHANGED <<cache_vars, sched, de, http, updates, districts, contests, candidates, tx,
                   update_seq, district_seq, candidate_seq, now>>

\* The method returns: its MutexGuard is dropped and the next caller runs.
Return(p) ==
    /\ call[p].pc = "ret"
    /\ Holds(p)
    /\ client' = Unlock
    /\ fault' = FALSE
    /\ call' = [call EXCEPT ![p] = Idle]
    /\ UNCHANGED <<cache_vars, sched, de, http, updates, districts, contests, candidates, tx,
                   update_seq, district_seq, candidate_seq, now>>

-----------------------------------------------------------------------------
(* The reads of DbClient *)

Rows(t) == {t[k] : k \in 1..Len(t)}

\* (ORDER BY timestamp ASC)
EarliestRows(t) == {r \in Rows(t) : \A q \in Rows(t) : q.timestamp >= r.timestamp}

\* ORDER BY timestamp DESC LIMIT 1: a row no other row is later than (which
\* one, among rows of equal timestamp, the query does not say).
LatestRows(t) == {r \in Rows(t) : \A q \in Rows(t) : q.timestamp <= r.timestamp}

\* (WHERE timestamp <= $1: the snapshots as of ts)
RowsAtOrBefore(t, ts) == SelectSeq(t, LAMBDA r : r.timestamp <= ts)

\* WHERE timestamp = $1
RowsAt(t, ts) == SelectSeq(t, LAMBDA r : r.timestamp = ts)

\* The district rows a contest row joins: JOIN districts d ON c.district_id = d.id
JoinDistrict(c) == SelectSeq(ViewDistricts, LAMBDA d : d.id = c.district_id)

\* SELECT c.id, c.ballot_title, d.name, ... FROM contests c
\* JOIN districts d ON c.district_id = d.id WHERE c.update_id = $1
RECURSIVE JoinRows(_, _)
JoinRows(cs, uid) ==
    IF cs = <<>> THEN <<>>
    ELSE LET c == Head(cs) IN
         (IF c.update_id = uid
          THEN [k \in 1..Len(JoinDistrict(c)) |-> <<c, JoinDistrict(c)[k]>>]
          ELSE <<>>) \o JoinRows(Tail(cs), uid)

SelectContests(uid) == JoinRows(ViewContests, uid)

\* SELECT name, percentage, votes, party_preference FROM candidates
\* WHERE contest_id = $1 AND update_id = $2
SelectCandidates(cid, uid) ==
    SelectSeq(ViewCandidates, LAMBDA r : r.contest_id = cid /\ r.update_id = uid)

\* .map(|c| Candidate { name, percentage, votes, party_preference })
CandidateOfRow(r) ==
    [name |-> r.name, percentage |-> r.percentage, votes |-> r.votes,
     party_preference |-> PartyPreferenceFromStr(r.party_preference)]

\* Contest { id, ballot_title, district: District {...}, candidates }
ContestOfRow(row, cands) ==
    [id |-> AsU32(row[1].id), ballot_title |-> row[1].ballot_title,
     district |-> [name |-> row[2].name,
                   percent_turnout |-> row[2].percent_turnout,
                   registered_voters |-> row[2].registered_voters,
                   ballots_counted |-> row[2].ballots_counted,
                   district_type |-> row[2].district_type,
                   district_type_subheading |-> row[2].district_type_subheading],
     candidates |-> [k \in 1..Len(cands) |-> CandidateOfRow(cands[k])]]

\* (.unwrap_or_default(): the error becomes an empty result)
ReadFailedAsEmpty(p, op, arg, e) == call' = [call EXCEPT ![p] = Ret(op, arg, Ok(<<>>))]

\* A read's early return through `?` with the error e of the statement.
ReadFailed(p, op, arg, e) == call' = [call EXCEPT ![p] = Ret(op, arg, Err(e))]

\* (LIMIT 1 without the ORDER BY)
get_latest_total_votes_unordered(p) ==
    /\ call[p].pc = "lock"
    /\ Holds(p)
    /\ \/ /\ fault' = FALSE
          /\ ViewUpdates = <<>>
          /\ call' = [call EXCEPT ![p] = Ret("get_latest_total_votes", <<>>, Ok(<<>>))]
       \/ /\ fault' = FALSE
          /\ \E r \in Rows(ViewUpdates) :
                call' = [call EXCEPT ![p] =
                           Ret("get_latest_total_votes", <<>>, Ok(<<r.total_votes>>))]
       \/ /\ fault' = TRUE
          /\ ReadFailed(p, "get_latest_total_votes", <<>>, "db")
    /\ UNCHANGED <<cache_vars, sched, de, http, updates, districts, contests, candidates, tx,
                   update_seq, district_seq, candidate_seq, now, client>>

\* get_latest_total_votes() takes the lock, then
\* query_opt("SELECT total_votes FROM updates ORDER BY timestamp DESC LIMIT 1")
\* and Ok(row.map(|r| r.get(0))): None is <<>>, Some(v) is <<v>>
get_latest_total_votes(p) ==
    /\ call[p].pc = "lock"
    /\ Holds(p)
    /\ \/ /\ fault' = FALSE
          /\ ViewUpdates = <<>>
          /\ call' = [call EXCEPT ![p] = Ret("get_latest_total_votes", <<>>, Ok(<<>>))]
       \/ /\ fault' = FALSE
          /\ \E r \in LatestRows(ViewUpdates) :
                call' = [call EXCEPT ![p] =
                           Ret("get_latest_total_votes", <<>>, Ok(<<r.total_votes>>))]
       \/ /\ fault' = TRUE
          /\ ReadFailed(p, "get_latest_total_votes", <<>>, "db")
    /\ UNCHANGED <<cache_vars, sched, de, http, updates, districts, contests, candidates, tx,
                   update_seq, district_seq, candidate_seq, now, client>>

\* get_latest_data() takes the lock, then
\* query_one("SELECT id FROM updates ORDER BY timestamp DESC LIMIT 1"):
\* an error unless the query returns exactly one row
get_latest_data(p) ==
    /\ call[p].pc = "lock"
    /\ Holds(p)
    /\ \/ /\ fault' = FALSE
          /\ ViewUpdates = <<>>
          /\ ReadFailed(p, "get_latest_data", <<>>, "row_count")
       \/ /\ fault' = FALSE
          /\ \E r \in LatestRows(ViewUpdates) :
                call' = [call EXCEPT ![p] =
                           [pc |-> "query_contests", op |-> "get_latest_data",
                            arg |-> <<>>, update_id |-> r.id]]
       \/ /\ fault' = TRUE
          /\ ReadFailed(p, "get_latest_data", <<>>, "db")
    /\ UNCHANGED <<cache_vars, sched, de, http, updates, districts, contests, candidates, tx,
                   update_seq, district_seq, candidate_seq, now, client>>

\* get_data_at_timestamp(timestamp = ts) takes the lock, then
\* query_one("SELECT id FROM updates WHERE timestamp = $1"): an error unless
\* the query returns exactly one row
get_data_at_timestamp(p, ts) ==
    /\ call[p].pc = "lock"
    /\ Holds(p)
    /\ LET rows == RowsAt(ViewUpdates, ts) IN
       \/ /\ fault' = FALSE
          /\ Len(rows) # 1
          /\ ReadFailed(p, "get_data_at_timestamp", ts, "row_count")
       \/ /\ fault' = FALSE
          /\ Len(rows) = 1
          /\ call' = [call EXCEPT ![p] =
                         [pc |-> "query_contests", op |-> "get_data_at_timestamp",
                          arg |-> ts, update_id |-> rows[1].id]]
       \/ /\ fault' = TRUE
          /\ ReadFailed(p, "get_data_at_timestamp", ts, "db")
    /\ UNCHANGED <<cache_vars, sched, de, http, updates, districts, contests, candidates, tx,
                   update_seq, district_seq, candidate_seq, now, client>>

\* The contests query of get_latest_data and of get_data_at_timestamp (the
\* two methods share the code from here on), then `for contest_row in contests`.
QueryContests(p) ==
    /\ call[p].pc = "query_contests"
    /\ Holds(p)
    /\ \/ /\ fault' = FALSE
          /\ LET rows == SelectContests(call[p].update_id) IN
             call' = [call EXCEPT ![p] =
                        IF rows = <<>>
                        THEN Ret(call[p].op, call[p].arg, Ok(<<>>))
                        ELSE [pc |-> "query_candidates", op |-> call[p].op,
                              arg |-> call[p].arg,
                              update_id |-> call[p].update_id, rows |-> rows,
                              result |-> <<>>]]
       \/ /\ fault' = TRUE
          /\ ReadFailed(p, call[p].op, call[p].arg, "db")
    /\ UNCHANGED <<cache_vars, sched, de, http, updates, districts, contests, candidates, tx,
                   update_seq, district_seq, candidate_seq, now, client>>

\* The loop body: the candidates query of the next contest row, then
\* result.push(contest); after the last row, Ok(result).
QueryCandidates(p) ==
    /\ call[p].pc = "query_candidates"
    /\ Holds(p)
    /\ \/ /\ fault' = FALSE
          /\ LET f == call[p]
                 row == Head(f.rows)
                 cands == SelectCandidates(row[1].id, f.update_id)
                 result == Append(f.result, ContestOfRow(row, cands)) IN
             call' = [call EXCEPT ![p] =
                        IF Tail(f.rows) = <<>>
                        THEN Ret(f.op, f.arg, Ok(result))
                        ELSE [f EXCEPT !.rows = Tail(f.rows), !.result = result]]
       \/ /\ fault' = TRUE
          /\ ReadFailed(p, call[p].op, call[p].arg, "db")
    /\ UNCHANGED <<cache_vars, sched, de, http, updates, districts, contests, candidates, tx,
                   update_seq, district_seq, candidate_seq, now, client>>

-----------------------------------------------------------------------------
(* main.rs: the rows of the CSV and their JSON form *)

\* CACHE_EXPIRATION: the seconds a SETEX'ed value lives
CACHE_EXPIRATION == 5

\* An f64 is written as its decimal text; "NaN" is the f64 that is no number.
\* A row of the CSV that deserializes into an ElectionData:
ElectionRow(id, title, seq, response, party, votes, percent) ==
    [gems_contest_id |-> id, contest_sort_seq |-> 1, district_type |-> "City",
     district_type_subheading |-> "sub", district_name |-> "Seattle",
     ballot_title |-> title, ballots_counted_for_district |-> 4,
     registered_voters_for_district |-> 9,
     percent_turnout_for_district |-> "44.44", candidate_sort_seq |-> seq,
     ballot_response |-> response, party_preference |-> party,
     votes |-> votes, percent_of_votes |-> percent]

\* A row that does not (a field of the wrong type, a missing field).
Malformed == [malformed |-> TRUE]

CsvRows ==
    << ElectionRow(100, "Mayor", 1, "Alice", <<"Prefers Democratic Party">>, 3, "60.00"),
       ElectionRow(100, "Mayor", 2, "Bob", <<>>, 2, "40.00"),
       ElectionRow(200, "Judge", 1, "Carol", <<>>, 0, "NaN") >>

\* What CSV_URL may serve.
CsvBodies ==
    { <<>>, <<CsvRows[1], CsvRows[2]>>, <<CsvRows[1], CsvRows[2], CsvRows[3]>>,
      <<CsvRows[1], Malformed>> }

\* (skip-and-continue: `if let Ok(record) = result { push }`)
RECURSIVE ParseRowsSkipping(_, _)
ParseRowsSkipping(rows, parsed_data) ==
    IF rows = <<>> THEN Ok(parsed_data)
    ELSE IF Head(rows) = Malformed THEN ParseRowsSkipping(Tail(rows), parsed_data)
    ELSE ParseRowsSkipping(Tail(rows), Append(parsed_data, Head(rows)))

\* `for result in reader.deserialize() { let record = result?; push }`
RECURSIVE ParseRows(_, _)
ParseRows(rows, parsed_data) ==
    IF rows = <<>> THEN Ok(parsed_data)
    ELSE IF Head(rows) = Malformed THEN Err("csv")
    ELSE ParseRows(Tail(rows), Append(parsed_data, Head(rows)))

\* serde_json writes a finite f64 as its number and any other as null
F64ToJson(x) == IF x = "NaN" THEN "null" ELSE x

\* QuotedFloat::deserialize of a JSON value: a number or a string of one is
\* read; null matches no variant of the untagged StringOrFloat
JsonIsF64(x) == x # "null"

\* serde_json::to_string(&parsed_data)
ToJson(recs) ==
    [k \in 1..Len(recs) |->
        [recs[k] EXCEPT !.percent_turnout_for_district = F64ToJson(@),
                        !.percent_of_votes = F64ToJson(@)]]

\* serde_json::from_str(&data)
FromJson(json) ==
    IF \A k \in 1..Len(json) :
          /\ JsonIsF64(json[k].percent_turnout_for_district)
          /\ JsonIsF64(json[k].percent_of_votes)
    THEN Ok(json)
    ELSE Err("Data parsing error")

-----------------------------------------------------------------------------
(* main.rs: get_all_data *)

NoValue == [val |-> <<>>, ttl |-> 0]

\* No fetched rows are cached or on their way to the cache.
NoOrigin == [body |-> <<>>, latency |-> 0, age |-> 0]

\* (no exclusion: a request uses the Redis connection without the guard)
WaitsUnguarded(p) == TRUE

Waits(p) == redis # <<>> /\ Head(redis) = p

\* What a finished get_all_data leaves in its frame: res, the return value;
\* got, the reply of GET (<<>>: none came); fetched, what
\* fetch_and_parse_csv returned (<<>>: it was not called).
Done(got, fetched, r) == [pc |-> "ret", got |-> got, fetched |-> fetched, res |-> r]

\* (ahead, kept for the properties: what the calls that p has waited behind
\* did meanwhile: "failed", the fetch of one failed; "fetched", one has
\* fetched the rows; "cached", its SETEX stored the value.)
Waiting(ahead) == [pc |-> "lock", ahead |-> ahead]

\* req once p's frame is f and the calls waiting behind p have seen `mark`.
Behind(p, f, mark) ==
    [q \in Procs |->
        IF q = p THEN f
        ELSE IF req[q].pc = "lock" THEN Waiting(mark)
        ELSE req[q]]

\* A request calls get_all_data, which starts with data.redis.lock().await.
redis_lock(p) ==
    /\ req[p].pc = "idle"
    /\ redis' = Append(redis, p)
    /\ req' = [req EXCEPT ![p] = Waiting("none")]
    /\ UNCHANGED <<db_vars, sched, de, http, cache, upstream, origin>>

\* redis::cmd("GET").arg(CACHE_KEY) ... ?, then `match cached_data`:
\* Some(data) => serde_json::from_str(&data), None => the fetch
get_all_data(p) ==
    /\ req[p].pc = "lock"
    /\ Waits(p)
    /\ \/ req' = [req EXCEPT ![p] = Done(<<>>, <<>>, Err("Redis error"))]
       \/ /\ cache.val # <<>>
          /\ req' = [req EXCEPT ![p] =
                       Done(<<cache.val>>, <<>>, FromJson(cache.val[1]))]
       \/ /\ cache.val = <<>>
          /\ req' = [req EXCEPT ![p] = [pc |-> "fetch", got |-> <<cache.val>>,
                                        ahead |-> req[p].ahead]]
    /\ UNCHANGED <<db_vars, sched, de, http, cache, redis, upstream, origin>>

\* fetch_and_parse_csv().await ... ?, then serde_json::to_string(&parsed_data)
fetch_and_parse_csv(p) ==
    /\ req[p].pc = "fetch"
    /\ Waits(p)
    /\ \/ /\ req' = Behind(p, Done(req[p].got, <<Err("reqwest")>>,
                                    Err("Data fetch error")), "failed")
          /\ UNCHANGED origin
       \/ LET parsed == ParseRows(upstream, <<>>) IN
          /\ req' = Behind(p, IF parsed.ok
                              THEN [pc |-> "setex", got |-> req[p].got,
                                    ahead |-> req[p].ahead,
                                    parsed_data |-> parsed.val,
                                    json_data |-> ToJson(parsed.val)]
                              ELSE Done(req[p].got, <<parsed>>,
                                        Err("Data fetch error")),
                           IF parsed.ok THEN "fetched" ELSE "failed")
          /\ origin' = IF parsed.ok
                       THEN [body |-> upstream, latency |-> 0, age |-> 0]
                       ELSE origin
    /\ UNCHANGED <<db_vars, sched, de, http, cache, redis, upstream>>

\* (SETEX with twice the expiration)
SetexDoubled(p) ==
    /\ req[p].pc = "setex"
    /\ Waits(p)
    /\ \/ /\ cache' = [val |-> <<req[p].json_data>>, ttl |-> 2 * CACHE_EXPIRATION]
          /\ req' = Behind(p, Done(req[p].got, <<Ok(req[p].parsed_data)>>,
                                   Ok(req[p].parsed_data)), "cached")
          /\ UNCHANGED origin
       \/ /\ UNCHANGED cache
          /\ req' = [req EXCEPT ![p] =
                       Done(req[p].got, <<Ok(req[p].parsed_data)>>,
                            Err("Redis caching error"))]
          /\ origin' = NoOrigin
    /\ UNCHANGED <<db_vars, sched, de, http, redis, upstream>>

\* redis::cmd("SETEX").arg(CACHE_KEY).arg(CACHE_EXPIRATION).arg(&json_data) ... ?,
\* then Ok(parsed_data)
Setex(p) ==
    /\ req[p].pc = "setex"
    /\ Waits(p)
    /\ \/ /\ cache' = [val |-> <<req[p].json_data>>, ttl |-> CACHE_EXPIRATION]
          /\ req' = Behind(p, Done(req[p].got, <<Ok(req[p].parsed_data)>>,
                                   Ok(req[p].parsed_data)), "cached")
          /\ UNCHANGED origin
       \/ /\ UNCHANGED cache
          /\ req' = [req EXCEPT ![p] =
                       Done(req[p].got, <<Ok(req[p].parsed_data)>>,
                            Err("Redis caching error"))]
          /\ origin' = NoOrigin
    /\ UNCHANGED <<db_vars, sched, de, http, redis, upstream>>

\* get_all_data returns: the guard is dropped.
ReturnData(p) ==
    /\ req[p].pc = "ret"
    /\ Waits(p)
    /\ redis' = Tail(redis)
    /\ req' = [req EXCEPT ![p] = Idle]
    /\ UNCHANGED <<db_vars, sched, de, http, cache, upstream, origin>>

\* A second passes.  In Redis the value's TTL runs down, and at 0 the value
\* is gone; rows that were fetched and are not yet stored (the call is
\* between fetch_and_parse_csv and the reply of SETEX) grow a second older.
Expire ==
    /\ \/ cache.val # <<>>
       \/ \E p \in Procs : req[p].pc = "setex" /\ origin.latency < MaxLatency
    /\ cache' = IF cache.val = <<>> THEN cache
                ELSE IF cache.ttl = 1 THEN NoValue
                ELSE [cache EXCEPT !.ttl = @ - 1]
    /\ origin' = IF cache.val = <<>>
                 THEN [origin EXCEPT !.latency = @ + 1, !.age = @ + 1]
                 ELSE IF cache.ttl = 1 THEN NoOrigin
                 ELSE [origin EXCEPT !.age = @ + 1]
    /\ UNCHANGED <<db_vars, sched, de, http, redis, upstream, req>>

\* The county publishes new results.
Publish(body) ==
    /\ upstream # body
    /\ upstream' = body
    /\ UNCHANGED <<db_vars, sched, de, http, cache, redis, req, origin>>

-----------------------------------------------------------------------------
(* main.rs: QuotedFloat::deserialize.  A text is the sequence of its        *)
(* characters.                                                              *)

Chars == {"\"", " ", "4", "5", ".", "x"}
Texts == UNION {[1..n -> Chars] : n \in 0..MaxFieldLen}

DigitValue(c) == CASE c = "4" -> 4 [] c = "5" -> 5
IsDigit(c) == c \in {"4", "5"}

\* (trim_start_matches: only the front is trimmed)
RECURSIVE TrimStartMatches(_)
TrimStartMatches(s) ==
    IF s # <<>> /\ Head(s) \in {"\"", " "} THEN TrimStartMatches(Tail(s)) ELSE s

\* s.trim_matches(|c| c == '"' || c == ' '): both ends
RECURSIVE TrimMatches(_)
TrimMatches(s) ==
    IF s # <<>> /\ Head(s) \in {"\"", " "} THEN TrimMatches(Tail(s))
    ELSE IF s # <<>> /\ s[Len(s)] \in {"\"", " "}
         THEN TrimMatches(SubSeq(s, 1, Len(s) - 1))
    ELSE s

\* The number a run of digits stands for.
RECURSIVE DigitsValue(_)
DigitsValue(ds) ==
    IF ds = <<>> THEN 0
    ELSE 10 * DigitsValue(SubSeq(ds, 1, Len(ds) - 1)) + DigitValue(ds[Len(ds)])

\* f64::from_str on digits and a point: "4", "4.5", "4." and ".5" are read,
\* "", "." and anything with another character are not.  The f64 is kept
\* as its whole part and the digits of its fraction.
F64FromStr(s) ==
    LET dots == {k \in 1..Len(s) : s[k] = "."}
        dot == IF dots = {} THEN Len(s) + 1 ELSE CHOOSE k \in dots : \A m \in dots : k <= m
        whole == SubSeq(s, 1, dot - 1)
        fraction == SubSeq(s, dot + 1, Len(s))
    IN  IF /\ \A k \in 1..Len(whole) : IsDigit(whole[k])
           /\ \A k \in 1..Len(fraction) : IsDigit(fraction[k])
           /\ Len(whole) + Len(fraction) >= 1
        THEN Ok([whole |-> DigitsValue(whole), fraction |-> fraction])
        ELSE Err("invalid float literal")

\* What the deserializer hands to StringOrFloat::deserialize.
Str(s) == [kind |-> "str", chars |-> s]
Float(f) == [kind |-> "f64", val |-> f]

\* QuotedFloat::deserialize: the untagged StringOrFloat, then the match
QuotedFloatDeserialize(content) ==
    CASE content.kind = "str" -> F64FromStr(TrimMatches(content.chars))
      [] content.kind = "f64" -> Ok(content.val)
      [] OTHER -> Err("data did not match any variant of untagged enum StringOrFloat")

\* A field of a CSV record (csv's deserialize_any): a field that reads as a
\* number is handed over as the number, any other as a string.
CsvField(s) == IF F64FromStr(s).ok THEN Float(F64FromStr(s).val) ELSE Str(s)

\* A JSON number has digits before the point and, after a point, digits.
IsJsonNumber(s) ==
    /\ F64FromStr(s).ok
    /\ s # <<>> /\ IsDigit(s[1]) /\ IsDigit(s[Len(s)])

\* A JSON token (serde_json): the number s, or the string s.
JsonNumber(s) == IF IsJsonNumber(s) THEN Float(F64FromStr(s).val) ELSE [kind |-> "syntax"]
JsonString(s) == Str(s)

Quoted(s) == <<"\"">> \o s \o <<"\"">>
Spaced(s) == <<" ">> \o s \o <<" ">>

\* The field de.text of a CSV record is deserialized as it is, between
\* double quotes, and between spaces.
DeserializeCsv ==
    /\ de.pc = "field"
    /\ de' = [pc |-> "csv", text |-> de.text,
              bare |-> QuotedFloatDeserialize(CsvField(de.text)),
              quoted |-> QuotedFloatDeserialize(CsvField(Quoted(de.text))),
              spaced |-> QuotedFloatDeserialize(CsvField(Spaced(de.text)))]
    /\ UNCHANGED <<db_vars, cache_vars, sched, http>>

\* The same from the JSON of the cache: as a number, as a string, and as a
\* string between spaces.
DeserializeJson ==
    /\ de.pc = "field"
    /\ de' = [pc |-> "json", text |-> de.text,
              bare |-> QuotedFloatDeserialize(JsonNumber(de.text)),
              quoted |-> QuotedFloatDeserialize(JsonString(de.text)),
              spaced |-> QuotedFloatDeserialize(JsonString(Spaced(de.text)))]
    /\ UNCHANGED <<db_vars, cache_vars, sched, http>>

-----------------------------------------------------------------------------
(* main.rs: the handlers, as functions of the result r of get_all_data *)

Response(status, body) == [status |-> status, body |-> body]

\* A body of plain text.
Text(t) == [text |-> t]

\* The handler's task panicked: the request gets no response from it.
Panicked(message) == Response(0, [panic |-> message])

\* .filter(|record| record.gems_contest_id == contest_id).collect()
FilterContest(all_data, contest_id) ==
    SelectSeq(all_data, LAMBDA record : record.gems_contest_id = contest_id)

\* The f64 of a percentage, in hundredths; NaN compares with nothing.
PercentValue(x) ==
    CASE x = "60.00" -> 6000
      [] x = "40.00" -> 4000
      [] x = "44.44" -> 4444

\* b.percent_of_votes.0.partial_cmp(&a.percent_of_votes.0)
\*     .unwrap_or(Ordering::Equal) is Less: b goes before a
GoesBefore(b, a) ==
    /\ a.percent_of_votes # "NaN" /\ b.percent_of_votes # "NaN"
    /\ PercentValue(b.percent_of_votes) > PercentValue(a.percent_of_votes)

\* contest_data.sort_by(..): stable, descending by percent_of_votes
RECURSIVE InsertSorted(_, _)
InsertSorted(sorted, a) ==
    IF sorted = <<>> THEN <<a>>
    ELSE IF GoesBefore(a, Head(sorted)) THEN <<a>> \o sorted
    ELSE <<Head(sorted)>> \o InsertSorted(Tail(sorted), a)

RECURSIVE SortByPercent(_)
SortByPercent(contest_data) ==
    IF contest_data = <<>> THEN <<>>
    ELSE InsertSorted(SortByPercent(SubSeq(contest_data, 1, Len(contest_data) - 1)),
                      contest_data[Len(contest_data)])

\* GET /election-data
get_all_data_handler(r) ==
    IF r.ok THEN Response(200, [json |-> ToJson(r.val)])
    ELSE Response(500, Text("Failed to fetch data"))

\* GET /election-data/contest/{contest_id}
get_contest_data(r, contest_id) ==
    IF r.ok THEN Response(200, [json |-> ToJson(FilterContest(r.val, contest_id))])
    ELSE Response(500, Text("Failed to get data"))

\* templates::contest_details: the markup of contest_data[0]'s contest and
\* of every item; indexing an empty slice panics
contest_details(contest_data) ==
    IF contest_data = <<>>
    THEN Panicked("index out of bounds: the len is 0 but the index is 0")
    ELSE Response(200, [contest_details |-> contest_data])

\* (without the is_empty() return)
get_contest_data_html_unchecked(r, contest_id) ==
    IF r.ok
    THEN contest_details(SortByPercent(FilterContest(r.val, contest_id)))
    ELSE Response(500, Text("Failed to get data"))

\* GET /election-data/contest-html?contest=contest_id
get_contest_data_html(r, contest_id) ==
    IF r.ok
    THEN LET contest_data == FilterContest(r.val, contest_id) IN
         IF contest_data = <<>>
         THEN Response(200, Text("No data available for this contest."))
         ELSE contest_details(SortByPercent(contest_data))
    ELSE Response(500, Text("Failed to get data"))

\* The contest ids requested.
ContestIds == {100, 200, 300}

\* i32::MAX and i32::MIN
I32Max == 2147483647
I32Min == -I32Max - 1

\* a + b leaves the i32 range.
Overflows(a, b) ==
    \/ b > 0 /\ a > I32Max - b
    \/ b < 0 /\ a < I32Min - b

\* a + b in i32 as a release build computes it: modulo 2^32
WrappingAdd(a, b) ==
    IF b > 0 /\ a > I32Max - b THEN (a - I32Max - 1) + (b - I32Max - 1)
    ELSE IF b < 0 /\ a < I32Min - b THEN (a + I32Max + 1) + (b + I32Max + 1)
    ELSE a + b

\* iter().map(..).sum::<i32>() over the i32s xs, from acc: where an addition
\* overflows, a build with overflow checks panics
\* ("attempt to add with overflow") and a build without them wraps.  The
\* set of the outcomes the builds can produce.
Sum(n) == [panicked |-> FALSE, val |-> n]
SumPanicked == [panicked |-> TRUE, val |-> 0]

RECURSIVE SumI32(_, _)
SumI32(xs, acc) ==
    IF xs = <<>> THEN {Sum(acc)}
    ELSE IF Overflows(acc, Head(xs))
         THEN {SumPanicked} \cup SumI32(Tail(xs), WrappingAdd(acc, Head(xs)))
    ELSE SumI32(Tail(xs), acc + Head(xs))

Votes(all_data) == [k \in 1..Len(all_data) |-> all_data[k].votes]
RegisteredVoters(all_data) ==
    [k \in 1..Len(all_data) |-> all_data[k].registered_voters_for_district]

\* sum::<f64>() / all_data.len() as f64, in hundredths; 0.0 / 0.0 is NaN
RECURSIVE SumPercent(_)
SumPercent(xs) == IF xs = <<>> THEN 0 ELSE PercentValue(Head(xs)) + SumPercent(Tail(xs))

AverageTurnout(all_data) ==
    IF all_data = <<>> THEN [nan |-> TRUE, hundredths |-> 0]
    ELSE [nan |-> FALSE,
          hundredths |-> SumPercent([k \in 1..Len(all_data) |->
                             all_data[k].percent_turnout_for_district]) \div Len(all_data)]

\* serde_json::json! of the average: null for NaN
AverageToJson(a) == [null |-> a.nan, hundredths |-> a.hundredths]

\* GET /election-data/summary: the responses the builds can give
get_summary_statistics(r) ==
    IF r.ok
    THEN {IF tv.panicked \/ trv.panicked THEN Panicked("attempt to add with overflow")
          ELSE Response(200, [json |->
                   [total_votes |-> tv.val, total_registered_voters |-> trv.val,
                    average_turnout_percentage |-> AverageToJson(AverageTurnout(r.val))]]) :
             tv \in SumI32(Votes(r.val), 0),
             trv \in SumI32(RegisteredVoters(r.val), 0)}
    ELSE {Response(500, Text("Failed to get data"))}

\* templates::summary_statistics
summary_statistics(total_votes, total_registered_voters, average_turnout) ==
    [summary_statistics |->
        [total_votes |-> total_votes,
         total_registered_voters |-> total_registered_voters,
         average_turnout |-> average_turnout]]

\* GET /election-data/summary-html
get_summary_statistics_html(r) ==
    IF r.ok
    THEN {IF tv.panicked \/ trv.panicked THEN Panicked("attempt to add with overflow")
          ELSE Response(200, summary_statistics(tv.val, trv.val, AverageTurnout(r.val))) :
             tv \in SumI32(Votes(r.val), 0),
             trv \in SumI32(RegisteredVoters(r.val), 0)}
    ELSE {Response(500, Text("Failed to get data"))}

\* struct BallotInfo
BallotInfo(contest_id, ballot_title) ==
    [contest_id |-> contest_id, ballot_title |-> ballot_title]

\* (insert: a later record of the title replaces the contest id)
RECURSIVE BallotMapInserting(_, _)
BallotMapInserting(all_data, ballot_map) ==
    IF all_data = <<>> THEN ballot_map
    ELSE LET record == Head(all_data) IN
         BallotMapInserting(Tail(all_data),
             [t \in DOMAIN ballot_map \cup {record.ballot_title} |->
                 IF t = record.ballot_title THEN record.gems_contest_id
                 ELSE ballot_map[t]])

\* for record in all_data { ballot_map.entry(record.ballot_title)
\*                                    .or_insert(record.gems_contest_id); }
RECURSIVE BallotMap(_, _)
BallotMap(all_data, ballot_map) ==
    IF all_data = <<>> THEN ballot_map
    ELSE LET record == Head(all_data) IN
         BallotMap(Tail(all_data),
             [t \in DOMAIN ballot_map \cup {record.ballot_title} |->
                 IF t \in DOMAIN ballot_map THEN ballot_map[t]
                 ELSE record.gems_contest_id])

\* String::cmp on the ballot titles of Records: bytewise, so
\* "Auditor" < "Judge" < "Mayor".
TitleRank(t) ==
    CASE t = "Auditor" -> 1
      [] t = "Judge" -> 2
      [] t = "Mayor" -> 3

\* ballot_map.into_iter().map(..).collect(), then
\* ballot_info.sort_by(|a, b| a.ballot_title.cmp(&b.ballot_title)): the keys
\* of a HashMap differ, so the order it iterates in leaves no trace.
RECURSIVE SortByTitle(_, _)
SortByTitle(ballot_map, titles) ==
    IF titles = {} THEN <<>>
    ELSE LET first == CHOOSE t \in titles :
                          \A u \in titles : TitleRank(t) <= TitleRank(u)
         IN  <<BallotInfo(ballot_map[first], first)>>
                 \o SortByTitle(ballot_map, titles \ {first})

\* The ballot_info the three listings are made of.
BallotInfos(all_data) ==
    LET ballot_map == BallotMap(all_data, [t \in {} |-> 0])
    IN  SortByTitle(ballot_map, DOMAIN ballot_map)

\* GET /election-data/ballot-titles
get_ballot_titles(r) ==
    IF r.ok THEN Response(200, [json |-> BallotInfos(r.val)])
    ELSE Response(500, Text("Failed to get data"))

\* templates::index(&ballot_info) and templates::ballot_titles(&ballot_info)
\* as main.rs calls them, on a list of BallotInfo: the markup of the entries
\* of the list, in its order.
templates_index(ballot_info) == [index |-> ballot_info]
templates_ballot_titles(ballot_info) == [ballot_titles |-> ballot_info]

\* GET /
index(r) ==
    IF r.ok THEN Response(200, templates_index(BallotInfos(r.val)))
    ELSE Response(500, Text("Failed to load page"))

\* GET /election-data/ballot-titles-html
get_ballot_titles_html(r) ==
    IF r.ok THEN Response(200, templates_ballot_titles(BallotInfos(r.val)))
    ELSE Response(500, Text("Failed to get data"))

-----------------------------------------------------------------------------
(* main.rs: a request to a handler.  http.r is what get_all_data returned  *)
(* to it; the handler answers from there.                                   *)

\* The records get_all_data may return.
Records ==
    { ElectionRow(100, "Mayor", 1, "Alice", <<"Prefers Democratic Party">>, I32Max, "60.00"),
      ElectionRow(100, "Mayor", 2, "Bob", <<>>, 1, "40.00"),
      ElectionRow(200, "Mayor", 1, "Carol", <<>>, 1, "60.00"),
      ElectionRow(200, "Judge", 1, "Dan", <<>>, 0, "NaN"),
      ElectionRow(300, "Auditor", 1, "Erin", <<>>, I32Max, "40.00"),
      ElectionRow(100, "Judge", 1, "Frank", <<>>, 1, "40.00") }

AllData == UNION {[1..n -> Records] : n \in 0..MaxRecords}

Request(r) == [pc |-> "request", r |-> r]
Responded(handler, query, resp) ==
    [pc |-> "response", handler |-> handler, query |-> query, r |-> http.r,
     resp |-> resp]

AllDataHandler ==
    /\ http.pc = "request"
    /\ http' = Responded("get_all_data_handler", 0, get_all_data_handler(http.r))
    /\ UNCHANGED <<db_vars, cache_vars, sched, de>>

ContestData(contest_id) ==
    /\ http.pc = "request"
    /\ http' = Responded("get_contest_data", contest_id,
                         get_contest_data(http.r, contest_id))
    /\ UNCHANGED <<db_vars, cache_vars, sched, de>>

ContestDataHtml(contest_id) ==
    /\ http.pc = "request"
    /\ http' = Responded("get_contest_data_html", contest_id,
                         get_contest_data_html(http.r, contest_id))
    /\ UNCHANGED <<db_vars, cache_vars, sched, de>>

Summary ==
    /\ http.pc = "request"
    /\ \E resp \in get_summary_statistics(http.r) :
          http' = Responded("get_summary_statistics", 0, resp)
    /\ UNCHANGED <<db_vars, cache_vars, sched, de>>

SummaryHtml ==
    /\ http.pc = "request"
    /\ \E resp \in get_summary_statistics_html(http.r) :
          http' = Responded("get_summary_statistics_html", 0, resp)
    /\ UNCHANGED <<db_vars, cache_vars, sched, de>>

BallotTitles ==
    /\ http.pc = "request"
    /\ http' = Responded("get_ballot_titles", 0, get_ballot_titles(http.r))
    /\ UNCHANGED <<db_vars, cache_vars, sched, de>>

Index ==
    /\ http.pc = "request"
    /\ http' = Responded("index", 0, index(http.r))
    /\ UNCHANGED <<db_vars, cache_vars, sched, de>>

BallotTitlesHtml ==
    /\ http.pc = "request"
    /\ http' = Responded("get_ballot_titles_html", 0, get_ballot_titles_html(http.r))
    /\ UNCHANGED <<db_vars, cache_vars, sched, de>>

-----------------------------------------------------------------------------
(* The Refresh Scheduler and its Change Detector (spec 4.2, 4.5): one task, *)
(* one ingestion cycle after the other: detect-change with                  *)
(* get_latest_total_votes, then log_update if the total has changed.        *)

MaxCycles == MaxWrites + 1

\* The normalized result sets the source publishes from tick to tick.
SourceData == {cl \in ContestLists : Len(cl) <= 1}

\* Between cycles.  last: <<>> or the data and the outcome of the cycle
\* before; cycles: the cycles started.
Resting(last, cycles) == [pc |-> "idle", last |-> last, cycles |-> cycles]

\* A tick: the cycle has fetched and normalized the source data cl.
\* (before: the committed tables as the cycle starts, kept for the properties.)
StartCycle(p, cl) ==
    /\ sched.pc = "idle"
    /\ sched.cycles < MaxCycles
    /\ call[p].pc = "idle"
    /\ sched' = [pc |-> "detect", data |-> cl, last |-> sched.last,
                 cycles |-> sched.cycles + 1, before |-> Committed]
    /\ UNCHANGED <<db_vars, cache_vars, de, http>>

\* The Change Detector, given the reply of get_latest_total_votes: no prior
\* snapshot or another total, "changed"; the same total, "unchanged"; an
\* error of the store abandons the cycle.
DetectChange(p) ==
    /\ sched.pc = "detect"
    /\ Returned(p, "get_latest_total_votes")
    /\ sched' = [sched EXCEPT !.pc =
                    IF ~call[p].res.ok THEN "abandon"
                    ELSE IF call[p].res.val = <<TotalVotes(sched.data)>> THEN "skip"
                    ELSE "persist"]
    /\ UNCHANGED <<db_vars, cache_vars, de, http>>

\* The cycle reads the result of its log_update.
Persisted(p) ==
    /\ sched.pc = "persist"
    /\ Returned(p, "log_update")
    /\ sched' = [sched EXCEPT !.pc = IF call[p].res.ok THEN "committed" ELSE "failed"]
    /\ UNCHANGED <<db_vars, cache_vars, de, http>>

\* The cycle is over; the scheduler waits for the next tick.
EndCycle(p) ==
    /\ sched.pc \in {"skip", "abandon", "committed", "failed"}
    /\ call[p].pc = "idle"
    /\ sched' = Resting(<<[data |-> sched.data, outcome |-> sched.pc]>>, sched.cycles)
    /\ UNCHANGED <<db_vars, cache_vars, de, http>>

-----------------------------------------------------------------------------
(* The specifications *)

DbInit ==
    /\ updates = <<>> /\ districts = <<>> /\ contests = <<>> /\ candidates = <<>>
    /\ tx = NoTx
    /\ update_seq = 0 /\ district_seq = 0 /\ candidate_seq = 0
    /\ now = 0
    /\ client = <<>>
    /\ fault = FALSE
    /\ call = [p \in Procs |-> Idle]

CacheInit ==
    /\ cache = NoValue
    /\ redis = <<>>
    /\ upstream = <<>>
    /\ req = [p \in Procs |-> Idle]
    /\ origin = NoOrigin

SchedInit == sched = Resting(<<>>, 0)

NoRequest == [pc |-> "none"]

Init == DbInit /\ CacheInit /\ SchedInit /\ de = [pc |-> "none"] /\ http = NoRequest

\* The store: the scheduler's writes and the readers of the snapshots.
DbNext ==
    \/ \E p \in Procs : lock(p)
    \/ \E p \in Writers, cl \in ContestLists, t \in Times :
          log_update(p, cl, TotalVotes(cl), t)
    \/ \E p \in Procs : InsertUpdate(p)
    \/ \E p \in Procs : InsertDistrict(p)
    \/ \E p \in Procs : InsertContest(p)
    \/ \E p \in Procs : InsertCandidate(p)
    \/ \E p \in Procs : Commit(p)
    \/ \E p \in Procs : get_latest_total_votes(p)
    \/ \E p \in Readers : get_latest_data(p)
    \/ \E p \in Readers, ts \in Times : get_data_at_timestamp(p, ts)
    \/ \E p \in Procs : QueryContests(p)
    \/ \E p \in Procs : QueryCandidates(p)
    \/ \E p \in Procs : Return(p)

Spec == Init /\ [][DbNext]_vars

\* The HTTP server: concurrent requests through the cache.
CacheNext ==
    \/ \E p \in Procs : redis_lock(p)
    \/ \E p \in Procs : get_all_data(p)
    \/ \E p \in Procs : fetch_and_parse_csv(p)
    \/ \E p \in Procs : Setex(p)
    \/ \E p \in Procs : ReturnData(p)
    \/ Expire
    \/ \E body \in CsvBodies : Publish(body)

CacheSpec == Init /\ [][CacheNext]_vars

\* The scheduler's cycles against the store.
IngestNext ==
    \/ \E p \in Writers, cl \in SourceData : StartCycle(p, cl)
    \/ \E p \in Writers : sched.pc \in {"detect", "persist"} /\ lock(p)
    \/ \E p \in Writers : sched.pc = "detect" /\ get_latest_total_votes(p)
    \/ \E p \in Writers : DetectChange(p)
    \/ \E p \in Writers, t \in Times :
          /\ sched.pc = "persist"
          /\ log_update(p, sched.data, TotalVotes(sched.data), t)
    \/ \E p \in Writers : InsertUpdate(p)
    \/ \E p \in Writers : InsertDistrict(p)
    \/ \E p \in Writers : InsertContest(p)
    \/ \E p \in Writers : InsertCandidate(p)
    \/ \E p \in Writers : Commit(p)
    \/ \E p \in Writers : Persisted(p)
    \/ \E p \in Writers :
          /\ sched.pc # "detect"
          /\ sched.pc = "persist" => Returned(p, "get_latest_total_votes")
          /\ Return(p)
    \/ \E p \in Writers : EndCycle(p)

IngestSpec == Init /\ [][IngestNext]_vars

\* The program runs the store or the cache (main.rs has no `mod database`),
\* and every call that owns a lock goes on: its awaits on the connection
\* return and the task is polled again.
\* The lists written where only the locks matter: none or one contest, with
\* its candidates; and the clock stands still.
LiveLists == {cl \in ContestLists : Len(cl) <= 1}

StoreStep(p) ==
    \/ \E cl \in LiveLists :
          p \in Writers /\ log_update(p, cl, TotalVotes(cl), now)
    \/ InsertUpdate(p) \/ InsertDistrict(p) \/ InsertContest(p)
    \/ InsertCandidate(p) \/ Commit(p)
    \/ get_latest_total_votes(p)
    \/ p \in Readers /\ get_latest_data(p)
    \/ p \in Readers /\ get_data_at_timestamp(p, now)
    \/ QueryContests(p) \/ QueryCandidates(p)
    \/ Return(p)

CacheStep(p) ==
    get_all_data(p) \/ fetch_and_parse_csv(p) \/ Setex(p) \/ ReturnData(p)

LiveNext ==
    \/ /\ CacheInit
       /\ \/ \E p \in Procs : lock(p)
          \/ \E p \in Procs : StoreStep(p)
    \/ (DbInit /\ CacheNext)

LiveSpec ==
    /\ Init /\ [][LiveNext]_vars
    /\ \A p \in Procs : WF_vars(CacheInit /\ StoreStep(p))
    /\ \A p \in Procs : WF_vars(DbInit /\ CacheStep(p))

\* QuotedFloat::deserialize on every text of the bound.
CoerceInit ==
    /\ DbInit /\ CacheInit /\ SchedInit
    /\ de \in {[pc |-> "field", text |-> t] : t \in Texts}
    /\ http = NoRequest

CoerceNext == DeserializeCsv \/ DeserializeJson

CoerceSpec == CoerceInit /\ [][CoerceNext]_vars

\* The handlers of main.rs on every result of get_all_data of the bound.
HandlerInit ==
    /\ DbInit /\ CacheInit /\ SchedInit
    /\ de = [pc |-> "none"]
    /\ http \in {Request(Err("Data fetch error"))} \cup {Request(Ok(d)) : d \in AllData}

HandlerNext ==
    \/ AllDataHandler
    \/ \E contest_id \in ContestIds : ContestData(contest_id)
    \/ Summary \/ SummaryHtml
    \/ BallotTitles \/ Index \/ BallotTitlesHtml
    \/ \E contest_id \in ContestIds : ContestDataHtml(contest_id)

HandlerSpec == HandlerInit /\ [][HandlerNext]_vars

-----------------------------------------------------------------------------
(* Properties of the store *)

\* The committed rows of snapshot uid, in table order.
SnapshotContests(uid) == SelectSeq(contests, LAMBDA c : c.update_id = uid)
SnapshotCandidates(cid, uid) ==
    SelectSeq(candidates, LAMBDA r : r.contest_id = cid /\ r.update_id = uid)

\* tree is the whole of committed snapshot uid: one Contest per contest row
\* of uid, each with the fields of its district row and with one Candidate
\* per candidate row of that contest in uid.
IsTreeOf(tree, uid) ==
    LET cs == SnapshotContests(uid) IN
    /\ Len(tree) = Len(cs)
    /\ \A k \in 1..Len(cs) :
          LET rs == SnapshotCandidates(cs[k].id, uid) IN
          /\ tree[k].id = cs[k].id
          /\ tree[k].ballot_title = cs[k].ballot_title
          /\ \E d \in Rows(districts) :
                /\ d.id = cs[k].district_id
                /\ tree[k].district =
                      [name |-> d.name, percent_turnout |-> d.percent_turnout,
                       registered_voters |-> d.registered_voters,
                       ballots_counted |-> d.ballots_counted,
                       district_type |-> d.district_type,
                       district_type_subheading |-> d.district_type_subheading]
          /\ Len(tree[k].candidates) = Len(rs)
          /\ \A j \in 1..Len(rs) :
                /\ tree[k].candidates[j].name = rs[j].name
                /\ tree[k].candidates[j].votes = rs[j].votes
                /\ tree[k].candidates[j].percentage = rs[j].percentage

\* No committed snapshot is later than u.
IsLatest(u) == \A q \in Rows(updates) : q.timestamp <= u.timestamp

\* C1: a log_update that returns an error has left the four committed tables
\* exactly as they were when it was called, and none of the rows it had
\* inserted is left on the connection: a read that follows sees the prior
\* snapshots whole and nothing of the failed attempt.
C1_FailedWriteChangesNothing ==
    \A p \in Procs :
        (Returned(p, "log_update") /\ ~call[p].res.ok) =>
            /\ Committed = call[p].arg.before
            /\ tx = NoTx
            /\ ViewUpdates = call[p].arg.before[1]
            /\ ViewContests = call[p].arg.before[3]

\* C1 witness: a log_update failed after it had inserted rows, with a
\* snapshot committed before it.
C1_Witness ==
    \E p \in Procs :
        /\ Returned(p, "log_update") /\ ~call[p].res.ok
        /\ call[p].arg.rolled_back >= 3
        /\ updates # <<>>

\* C2 (as claimed): contest ids recur across snapshots, so the insert of a
\* contest row is refused for its id only when the same call has already
\* inserted a contest with that id.
C2_ContestIdsRecurAcrossSnapshots ==
    [][\A p \in Procs :
          (/\ call[p].pc = "insert_contest"
           /\ call'[p].pc = "ret"
           /\ call'[p].res.val = "unique_violation")
          => \E k \in 1..(call[p].i - 1) :
                call[p].arg.contests[k].id = call[p].arg.contests[call[p].i].id]_vars

\* C3: a read that runs while writers come and go returns the whole tree of
\* one committed snapshot, and between a read's statements the connection
\* has no transaction open.
C3_ReadsSeeWholeSnapshots ==
    /\ \A p \in Procs :
          (/\ call[p].pc = "ret"
           /\ call[p].op \in {"get_latest_data", "get_data_at_timestamp"}
           /\ call[p].res.ok)
          => \E u \in Rows(updates) : IsTreeOf(call[p].res.val, u.id)
    /\ \A p \in Procs :
          call[p].pc \in {"query_contests", "query_candidates"} => ~tx.open

\* C3 witness: a read returns a snapshot's tree while the writer has called
\* log_update and waits for the lock.
C3_Witness ==
    \E p \in Procs, w \in Writers :
        /\ Returned(p, "get_latest_data") /\ call[p].res.ok
        /\ call[p].res.val # <<>>
        /\ call[w].pc = "lock"

\* C4: get_latest_data returns the tree of a committed snapshot that has the
\* maximum timestamp, whatever writes succeeded and failed before.
C4_LatestIsMaxTimestamp ==
    \A p \in Procs :
        (Returned(p, "get_latest_data") /\ call[p].res.ok) =>
            \E u \in Rows(updates) : IsLatest(u) /\ IsTreeOf(call[p].res.val, u.id)

\* C4 witness: two snapshots of different timestamps are committed, and
\* get_latest_data returns the tree of the later one, which the earlier one
\* does not have.
C4_Witness ==
    \E p \in Procs :
        /\ Returned(p, "get_latest_data") /\ call[p].res.ok
        /\ Len(updates) = 2
        /\ updates[1].timestamp < updates[2].timestamp
        /\ call[p].res.val # <<>>
        /\ ~IsTreeOf(call[p].res.val, updates[1].id)

\* C5 (as claimed): on a store with no snapshot get_latest_data returns
\* nothing: it returns an error only when the storage layer fails.
C5_EmptyStoreIsNotAnError ==
    \A p \in Procs :
        (Returned(p, "get_latest_data") /\ updates = <<>> /\ ~fault) =>
            call[p].res.ok

C8_ReadFaultIsAnError ==
    \A p \in Procs :
        (fault /\ Holds(p)) => (call[p].pc = "ret" /\ ~call[p].res.ok)

\* C8 witness: get_latest_data fails on its candidates query, after its
\* first two queries had read a committed snapshot, and returns the error.
C8_Witness ==
    \E p \in Procs :
        /\ fault /\ Returned(p, "get_latest_data") /\ ~call[p].res.ok
        /\ \E c \in Rows(contests) : IsLatest(CHOOSE u \in Rows(updates) : u.id = c.update_id)

-----------------------------------------------------------------------------
(* Properties of the cache *)

\* p's get_all_data has built its return value after GET replied with a
\* cached value (a hit) or with none (a miss).
Hit(p) == req[p].pc = "ret" /\ req[p].got # <<>> /\ req[p].got[1] # <<>>
Miss(p) == req[p].pc = "ret" /\ req[p].got # <<>> /\ req[p].got[1] = <<>>

\* C9 (as claimed): a get_all_data that finds an unexpired cached value
\* returns that value and does not contact the source; one that finds none
\* and whose read of the source succeeds returns the source's result; and
\* the rows a miss returns are those of the latest snapshot of the Snapshot
\* Store, so that some snapshot is committed there.
C9_CacheGet ==
    \A p \in Procs :
        /\ Hit(p) => /\ req[p].fetched = <<>>
                     /\ req[p].res.ok
                     /\ ToJson(req[p].res.val) = req[p].got[1][1]
        /\ (Miss(p) /\ req[p].fetched # <<>> /\ req[p].fetched[1].ok) =>
              req[p].res = req[p].fetched[1]
        /\ (Miss(p) /\ req[p].res.ok /\ req[p].res.val # <<>>) =>
              \E u \in Rows(updates) :
                  IsLatest(u) /\ Len(SnapshotContests(u.id)) > 0

\* C10 (as claimed): no get_all_data fails on the cache backend: whether
\* GET or SETEX returned an error, the request is answered as a miss is,
\* never with the error of Redis.
C10_CacheFailureIsAMiss ==
    \A p \in Procs :
        (req[p].pc = "ret" /\ ~req[p].res.ok) =>
            req[p].res.val \notin {"Redis error", "Redis caching error"}

\* p's get_all_data is between its GET and its return.
InFlight(p) == req[p].pc \in {"fetch", "setex", "ret"}

\* p's get_all_data has called fetch_and_parse_csv and not yet returned.
Fetching(p) ==
    \/ req[p].pc \in {"fetch", "setex"}
    \/ req[p].pc = "ret" /\ req[p].fetched # <<>>

\* C11 (as claimed): of the calls that run concurrently against an empty
\* cache at most one performs the fetch: no call comes to fetch after a call
\* it waited behind has performed the fetch, unless the value that call
\* cached has expired.
C11_AtMostOneFetches ==
    \A q \in Procs : req[q].pc = "fetch" => req[q].ahead \notin {"failed", "fetched"}

\* C11 (amended): at most one call is between GET and return at a time, so
\* at most one fetch is in flight; a call fetches only after GET found no
\* value, and no value is cached while it fetches; a call whose GET found a
\* value does not fetch.  (A call that fetched may have cached nothing: then
\* the call waiting behind it fetches in its turn.)
C11_SingleFlight ==
    /\ \A p, q \in Procs : (InFlight(p) /\ InFlight(q)) => p = q
    /\ \A p \in Procs :
          req[p].pc \in {"fetch", "setex"} =>
              (req[p].got = <<(<<>>)>> /\ cache.val = <<>>)
    /\ \A p \in Procs : Hit(p) => ~Fetching(p)

\* C11 witness: a call has fetched and cached the value, unexpired, while
\* another call, made meanwhile, waits for the lock.
C11_Witness ==
    \E p, q \in Procs :
        /\ Miss(p) /\ req[p].res.ok /\ req[p].res.val # <<>>
        /\ req[q] = Waiting("cached")
        /\ cache.val # <<>>

\* The step is p's GET replying with a cached value.
GetsCached(p) ==
    /\ req[p].pc = "lock" /\ req'[p].pc = "ret"
    /\ req'[p].got # <<>> /\ req'[p].got[1] # <<>>

\* The step leaves the cached entry alone or is its expiry in Redis.
ExpiryOnly ==
    \/ cache' = cache
    \/ cache.ttl > 1 /\ cache' = [cache EXCEPT !.ttl = @ - 1]
    \/ cache.ttl = 1 /\ cache' = NoValue

\* C12 (as claimed): nothing but TTL expiry removes or replaces the cached
\* entry, and a value that get_all_data returns from the cache was read from
\* the source at most CACHE_EXPIRATION seconds before.
C12_StalenessWithinTtl ==
    [][/\ cache.val # <<>> => ExpiryOnly
       /\ \A p \in Procs : GetsCached(p) => origin.age <= CACHE_EXPIRATION]_vars

\* C12 (amended): nothing but TTL expiry removes or replaces the cached
\* entry, and a value that get_all_data returns from the cache is the text of
\* rows the source served, stored by a SETEX less than CACHE_EXPIRATION
\* seconds before the GET; the rows were read from the source before that
\* SETEX, so their age exceeds the time since SETEX by the time the storing
\* call took from its fetch to its SETEX.
C12_StalenessWithinTtlOfSetex ==
    [][/\ cache.val # <<>> => ExpiryOnly
       /\ \A p \in Procs :
             GetsCached(p) =>
                 /\ req'[p].got[1] = <<ToJson(ParseRows(origin.body, <<>>).val)>>
                 /\ cache.ttl = CACHE_EXPIRATION - (origin.age - origin.latency)
                 /\ origin.age - origin.latency < CACHE_EXPIRATION]_vars

\* C12 witness: a call is answered from the cache in the last second of the
\* value's TTL, with rows the source has replaced since.
C12_Witness ==
    \E p \in Procs :
        /\ Hit(p) /\ req[p].res.ok
        /\ cache.val = req[p].got[1]
        /\ origin.age - origin.latency = CACHE_EXPIRATION - 1
        /\ upstream # origin.body

\* p's method is running statements on the store connection, up to its return.
UsesStore(p) == call[p].pc \notin {"idle", "lock"}

\* The callers in a lock's queue, each once.
Queued(queue) == {queue[k] : k \in 1..Len(queue)}
NoRepeats(queue) == Cardinality(Queued(queue)) = Len(queue)

\* C13: at most one operation uses the store connection at a time and it is
\* the one at the head of the lock's queue; every other caller that has
\* called is in the queue, once, and has run no statement; a transaction
\* is open only under the operation that uses the connection.  The same
\* holds of the Redis connection and the calls of get_all_data.
C13_OneOperationPerConnection ==
    /\ \A p, q \in Procs : (UsesStore(p) /\ UsesStore(q)) => p = q
    /\ \A p \in Procs : UsesStore(p) => (client # <<>> /\ Head(client) = p)
    /\ NoRepeats(client)
    /\ Queued(client) = {p \in Procs : call[p].pc # "idle"}
    /\ tx.open => \E p \in Procs : UsesStore(p) /\ call[p].op = "log_update"
    /\ \A p, q \in Procs : (InFlight(p) /\ InFlight(q)) => p = q
    /\ \A p \in Procs : InFlight(p) => (redis # <<>> /\ Head(redis) = p)
    /\ NoRepeats(redis)
    /\ Queued(redis) = {p \in Procs : req[p].pc # "idle"}

\* C13 witness: a reader has called while log_update is in its transaction,
\* with rows inserted, and waits in the queue behind it.
C13_Witness ==
    \E w \in Writers, r \in Readers :
        /\ call[w].pc = "insert_candidate"
        /\ tx.open /\ tx.contests # <<>>
        /\ call[r].pc = "lock"
        /\ client = <<w, r>>

-----------------------------------------------------------------------------
(* Properties of the ingestion cycle *)

\* The cycle under way has the source data of the cycle before it, and its
\* Change Detector has decided.
SecondOfTwo ==
    /\ sched.pc \in {"skip", "persist", "committed", "failed", "abandon"}
    /\ sched.last # <<>>
    /\ sched.last[1].data = sched.data

\* As the cycle started, every snapshot of maximum timestamp had total tv.
LatestTotalWas(tv) ==
    /\ sched.before[1] # <<>>
    /\ \A u \in Rows(sched.before[1]) :
          (\A q \in Rows(sched.before[1]) : q.timestamp <= u.timestamp)
              => u.total_votes = tv

-----------------------------------------------------------------------------
(* Properties of the store, continued *)

\* Table t is table s with rows appended.
Extends(t, s) == Len(t) >= Len(s) /\ SubSeq(t, 1, Len(s)) = s

\* The district rows of snapshot uid, in table order.
SnapshotDistricts(uid) == SelectSeq(districts, LAMBDA d : d.update_id = uid)

\* C15: every step leaves each committed row of the four tables as it is,
\* in its place, new rows being appended after them, and leaves every
\* committed snapshot with exactly the district, contest and candidate rows
\* it had.
C15_AppendOnly ==
    [][/\ Extends(updates', updates)
       /\ Extends(districts', districts)
       /\ Extends(contests', contests)
       /\ Extends(candidates', candidates)
       /\ \A u \in Rows(updates) :
             /\ SnapshotDistricts(u.id)' = SnapshotDistricts(u.id)
             /\ SnapshotContests(u.id)' = SnapshotContests(u.id)
             /\ \A c \in Rows(contests) :
                   SnapshotCandidates(c.id, u.id)' = SnapshotCandidates(c.id, u.id)]_vars

\* C15 witness: after a later snapshot was committed, get_data_at_timestamp
\* still returns the tree of the first one.
C15_Witness ==
    \E p \in Procs :
        /\ Returned(p, "get_data_at_timestamp") /\ call[p].res.ok
        /\ Len(updates) = 2
        /\ call[p].arg = updates[1].timestamp
        /\ updates[2].timestamp > call[p].arg
        /\ contests # <<>> /\ contests[Len(contests)].update_id = updates[2].id
        /\ call[p].res.val # <<>>
        /\ IsTreeOf(call[p].res.val, updates[1].id)

\* C20 (as claimed): no two committed snapshots have the same timestamp, so
\* that one snapshot is the latest and get_data_at_timestamp matches at most
\* one.
C20_TimestampsDistinct ==
    \A i, j \in 1..Len(updates) :
        i # j => updates[i].timestamp # updates[j].timestamp

-----------------------------------------------------------------------------
(* Properties of the cache, continued *)

\* C16: when fetch_and_parse_csv fails, get_all_data returns the error
\* `Data fetch error` and no records; it fails whenever a row of the body
\* does not parse, whatever the rows before it; the step writes nothing to
\* the cache, which holds no value, nor to the store.  When the call returns
\* it leaves the lock, so that the next call runs.
C16_WholeBatchFails ==
    [][/\ \A p \in Procs :
             (req[p].pc = "fetch" /\ req'[p].pc # "fetch") =>
                 /\ (\E k \in 1..Len(upstream) : upstream[k] = Malformed)
                       => req'[p].pc = "ret"
                 /\ req'[p].pc = "ret" =>
                       /\ req'[p].res = Err("Data fetch error")
                       /\ ~req'[p].fetched[1].ok
                       /\ cache' = NoValue /\ cache = NoValue
                       /\ Committed' = Committed
       /\ \A p \in Procs :
             (req[p].pc = "ret" /\ req'[p].pc = "idle") =>
                 (p \notin Queued(redis') /\ (redis # <<>> /\ Head(redis) = p))]_vars

\* C16 witness: a call that waited behind a call whose fetch failed has the
\* lock and has fetched a whole list of rows itself.
C16_Witness ==
    \E p \in Procs :
        /\ req[p].pc = "setex"
        /\ req[p].ahead = "failed"
        /\ Len(req[p].parsed_data) = 3
        /\ redis # <<>> /\ Head(redis) = p

\* The call could obtain no data: the source was unreachable, or it served
\* no row.
NoData(p) ==
    /\ req[p].pc = "ret"
    /\ \/ req[p].fetched = <<Err("reqwest")>>
       \/ req[p].res.ok /\ req[p].res.val = <<>>

\* The answers of an endpoint to the server errors of get_all_data.
ServerErrors ==
    {Err("Redis error"), Err("Data parsing error"), Err("Redis caching error")}

\* C17 (as claimed): an endpoint whose call could obtain no data answers
\* with a response that says so, which is none of its answers to a server
\* error.
C17_NoDataIsExplicit ==
    \A p \in Procs :
        NoData(p) =>
            /\ get_all_data_handler(req[p].res) \notin
                  {get_all_data_handler(e) : e \in ServerErrors}
            /\ \A id \in ContestIds :
                  /\ get_contest_data(req[p].res, id) \notin
                        {get_contest_data(e, id) : e \in ServerErrors}
                  /\ get_contest_data_html(req[p].res, id) \notin
                        {get_contest_data_html(e, id) : e \in ServerErrors}

\* The rows of committed snapshot uid are those log_update writes for the
\* list cl: a district row and a contest row for each contest, in order,
\* and a candidate row for each of its candidates.
WrittenAs(cl, uid) ==
    LET cs == SnapshotContests(uid) IN
    /\ Len(cs) = Len(cl)
    /\ Len(SnapshotDistricts(uid)) = Len(cl)
    /\ \A k \in 1..Len(cl) :
          LET rs == SnapshotCandidates(cs[k].id, uid)
              d == SnapshotDistricts(uid)[k] IN
          /\ AsU32(cs[k].id) = cl[k].id
          /\ cs[k].ballot_title = cl[k].ballot_title
          /\ cs[k].district_id = d.id
          /\ [f \in DOMAIN cl[k].district |-> d[f]] = cl[k].district
          /\ Len(rs) = Len(cl[k].candidates)
          /\ \A j \in 1..Len(rs) :
                /\ rs[j].name = cl[k].candidates[j].name
                /\ rs[j].votes = cl[k].candidates[j].votes
                /\ rs[j].percentage = cl[k].candidates[j].percentage
                /\ rs[j].party_preference =
                      PartyPreferenceDebug(cl[k].candidates[j].party_preference)

\* tree is the whole of snapshot uid and each candidate has the party
\* preference its row's text stands for.
IsTreeWithPartiesOf(tree, uid) ==
    /\ IsTreeOf(tree, uid)
    /\ \A k \in 1..Len(tree) :
          LET rs == SnapshotCandidates(tree[k].id, uid) IN
          \A j \in 1..Len(rs) :
              /\ tree[k].candidates[j].party_preference \in PartyPreference
              /\ PartyPreferenceDebug(tree[k].candidates[j].party_preference)
                    = rs[j].party_preference

\* C18 (as claimed): a log_update that succeeds has stored its contests as
\* the rows of the newest snapshot, each with its own district and
\* candidates, and a get_latest_data that follows returns the tree of that
\* newest snapshot, the one written last, with each candidate's name, votes,
\* percentage and party preference.
C18_RoundTrip ==
    /\ \A w \in Procs :
          (Returned(w, "log_update") /\ call[w].res.ok) =>
              WrittenAs(call[w].arg.contests, updates[Len(updates)].id)
    /\ \A r \in Procs :
          (Returned(r, "get_latest_data") /\ call[r].res.ok) =>
              IsTreeWithPartiesOf(call[r].res.val, updates[Len(updates)].id)

-----------------------------------------------------------------------------
\* A numeric text: a run of digits, then possibly a point and a run of
\* digits, with at least one digit in all.  Splits(v) is where the first
\* run ends.
AllDigits(s) == \A k \in 1..Len(s) : s[k] \in {"4", "5"}
Splits(v) ==
    {k \in 0..Len(v) :
        /\ AllDigits(SubSeq(v, 1, k))
        /\ k < Len(v) => (v[k + 1] = "." /\ AllDigits(SubSeq(v, k + 2, Len(v))))
        /\ Len(v) >= IF k < Len(v) THEN 2 ELSE 1}
IsNumeric(v) == Splits(v) # {}
NumericValue(v) ==
    LET k == CHOOSE x \in Splits(v) : TRUE
    IN  [whole |-> DigitsValue(SubSeq(v, 1, k)), fraction |-> SubSeq(v, k + 2, Len(v))]

\* t is a numeric text between quotes and spaces.
NumericAfterTrimming(t) ==
    \E i \in 1..Len(t) : \E j \in i..Len(t) :
        /\ IsNumeric(SubSeq(t, i, j))
        /\ \A k \in (1..(i - 1)) \cup ((j + 1)..Len(t)) : t[k] \in {"\"", " "}

\* C19: Quoted-numeric coercion: for a numeric text v, the field given as the
\* bare number v, as v between double quotes and as v between spaces
\* deserializes to the same number, the one v stands for, in all three
\* cases (CSV field or JSON token); a text that is not numeric once its
\* quotes and spaces are trimmed yields an error.
C19_QuotedNumericCoercion ==
    de.pc \in {"csv", "json"} =>
        /\ IsNumeric(de.text) =>
              /\ de.quoted = Ok(NumericValue(de.text))
              /\ de.spaced = Ok(NumericValue(de.text))
              /\ (de.pc = "csv" \/ IsJsonNumber(de.text)) =>
                     de.bare = Ok(NumericValue(de.text))
        /\ ~NumericAfterTrimming(de.text) =>
              /\ ~de.bare.ok
              /\ ~de.quoted.ok
              /\ ~de.spaced.ok

C19_Witness ==
    /\ de.pc = "csv"
    /\ de.text = <<"4", ".", "5">>
    /\ de.bare = Ok([whole |-> 4, fraction |-> <<"5">>])
    /\ de.quoted = de.bare
    /\ de.spaced = de.bare

-----------------------------------------------------------------------------
\* The district rows a contest row refers to, committed or in the open
\* transaction.
DistrictsOf(c) == {k \in 1..Len(ViewDistricts) : ViewDistricts[k].id = c.district_id}

\* C21: districts are per-snapshot copies: in every reachable state each
\* contest row refers to exactly one district row, which carries the
\* update_id of the contest, and no two contest rows refer to the same
\* district row; and when log_update has returned Ok the snapshot it wrote
\* has one district row per contest of its argument, each with the data of
\* that contest's district.
C21_DistrictsPerSnapshot ==
    /\ \A i \in 1..Len(ViewContests) :
          /\ \E k \in DistrictsOf(ViewContests[i]) :
                /\ DistrictsOf(ViewContests[i]) = {k}
                /\ ViewDistricts[k].update_id = ViewContests[i].update_id
          /\ \A j \in 1..Len(ViewContests) :
                i # j => ViewContests[i].district_id # ViewContests[j].district_id
    /\ \A w \in Procs :
          (Returned(w, "log_update") /\ call[w].res.ok) =>
              LET uid == updates[Len(updates)].id
                  cl == call[w].arg.contests
              IN  /\ Len(SnapshotDistricts(uid)) = Len(cl)
                  /\ \A i \in 1..Len(cl) :
                        SnapshotDistricts(uid)[i] =
                            DistrictRow(cl[i].district, SnapshotDistricts(uid)[i].id, uid)

\* C21 witness: two committed snapshots whose contests have the same
\* district data, each referring to the district row of its own snapshot.
C21_Witness ==
    /\ Len(updates) = 2 /\ Len(contests) = 2 /\ Len(districts) = 2
    /\ tx = NoTx
    /\ contests[1].update_id = updates[1].id
    /\ contests[2].update_id = updates[2].id
    /\ districts[1] = DistrictRow(DistrictValues[1], contests[1].district_id, updates[1].id)
    /\ districts[2] = DistrictRow(DistrictValues[1], contests[2].district_id, updates[2].id)
    /\ districts[1].id # districts[2].id
    /\ \E w \in Procs : Returned(w, "log_update") /\ call[w].res.ok

-----------------------------------------------------------------------------
(* Properties of the handlers *)

\* An integer of any size as its two limbs in base 2^16, and their sum.
Wide(v) == [hi |-> v \div 65536, lo |-> v % 65536]
WideAdd(x, y) ==
    [hi |-> x.hi + y.hi + (x.lo + y.lo) \div 65536, lo |-> (x.lo + y.lo) % 65536]

\* The mathematical sum of the integers xs.
RECURSIVE WideSum(_)
WideSum(xs) == IF xs = <<>> THEN Wide(0) ELSE WideAdd(Wide(Head(xs)), WideSum(Tail(xs)))

\* The total a summary response shows.
TotalVotesShown(resp) ==
    IF "json" \in DOMAIN resp.body THEN resp.body.json.total_votes
    ELSE resp.body.summary_statistics.total_votes

\* C22 (as claimed): whenever get_all_data gave records, every one with an
\* i32 vote count, get_summary_statistics and get_summary_statistics_html
\* answer 200 with a total_votes that is the mathematical sum of the votes
\* of the records, without wraparound and without failing.
C22_TotalVotesIsExactSum ==
    (/\ http.pc = "response"
     /\ http.handler \in {"get_summary_statistics", "get_summary_statistics_html"}
     /\ http.r.ok) =>
        /\ http.resp.status = 200
        /\ Wide(TotalVotesShown(http.resp)) = WideSum(Votes(http.r.val))

\* Where no addition overflows the total is the sum.
C22_ExactWithoutOverflow ==
    (/\ http.pc = "response"
     /\ http.handler \in {"get_summary_statistics", "get_summary_statistics_html"}
     /\ http.r.ok
     /\ WideSum(Votes(http.r.val)).hi < 32768) =>
        /\ http.resp.status = 200
        /\ Wide(TotalVotesShown(http.resp)) = WideSum(Votes(http.r.val))

-----------------------------------------------------------------------------
\* p is in the queue of the mutex.
InQueue(queue, p) == \E k \in 1..Len(queue) : queue[k] = p

\* C23: lock release and progress.  A task that is in no method of DbClient
\* is not in the queue of the connection's mutex, and a request that is not
\* in get_all_data is not in the queue of the Redis mutex: every return, Ok
\* or Err, has dropped the guard.  Where the awaits of the holder return,
\* every holder of a lock leaves its method and every caller waiting for a
\* lock comes to own it.
C23_LockReleaseAndProgress ==
    /\ [](\A p \in Procs :
            /\ call[p].pc = "idle" => ~InQueue(client, p)
            /\ req[p].pc = "idle" => ~InQueue(redis, p))
    /\ \A p \in Procs : Holds(p) ~> (call[p].pc = "idle")
    /\ \A p \in Procs : (req[p].pc # "idle" /\ Waits(p)) ~> (req[p].pc = "idle")
    /\ \A p \in Procs : (call[p].pc = "lock") ~> Holds(p)
    /\ \A p \in Procs : (req[p].pc = "lock") ~> Waits(p)

\* C23 witness: a caller waits for the connection behind a method that has
\* built an Err and is about to return.
C23_Witness ==
    \E p, q \in Procs :
        /\ client = <<q, p>>
        /\ call[q].pc = "ret" /\ ~call[q].res.ok
        /\ call[p].pc = "lock"

-----------------------------------------------------------------------------
\* The listing in a response of get_ballot_titles, index or
\* get_ballot_titles_html.
Listing(resp) ==
    IF "json" \in DOMAIN resp.body THEN resp.body.json
    ELSE IF "index" \in DOMAIN resp.body THEN resp.body.index
    ELSE resp.body.ballot_titles

\* The first record of all_data with ballot title t.
FirstWithTitle(all_data, t) ==
    all_data[CHOOSE k \in 1..Len(all_data) :
                /\ all_data[k].ballot_title = t
                /\ \A m \in 1..(k - 1) : all_data[m].ballot_title # t]

-----------------------------------------------------------------------------
\* C25: templates::contest_details is never given an empty list: no request
\* to get_contest_data_html ends in its panic, whatever get_all_data
\* returned and whichever contest is asked for; when no record has the
\* contest id the response is "No data available for this contest.", and
\* otherwise the list it renders has a record.
C25_ContestDetailsNeverEmpty ==
    (http.pc = "response" /\ http.handler = "get_contest_data_html") =>
        /\ http.resp.status # 0
        /\ (http.r.ok /\ FilterContest(http.r.val, http.query) = <<>>) =>
               http.resp = Response(200, Text("No data available for this contest."))
        /\ "contest_details" \in DOMAIN http.resp.body =>
               /\ http.resp.body.contest_details # <<>>
               /\ http.r.ok /\ FilterContest(http.r.val, http.query) # <<>>

\* C25 witness: records came, none of the contest asked for, and the
\* response is the no-data text.
C25_Witness ==
    /\ http.pc = "response" /\ http.handler = "get_contest_data_html"
    /\ http.r.ok /\ http.r.val # <<>>
    /\ http.query = 300
    /\ FilterContest(http.r.val, 300) = <<>>
    /\ http.resp = Response(200, Text("No data available for this contest."))

====
